---- MODULE Spec2Model ----
(***************************************************************************)
(* Sector rotation strategy: the allocator (strategy.py, get_signal_df),   *)
(* the regime overlay (strategy.py, get_macro_regime), the backtest engine *)
(* (backtest.py) and the data cache with its entry point (data_loader.py,  *)
(* main.py).                                                               *)
(*                                                                         *)
(* Conventions.  A float cell of a pandas table is a tuple: <<>> is NaN,   *)
(* <<v>> is a score (an integer number of half units, so 1.0 is <<2>>),    *)
(* <<n, d>> is the rational n/d (weights, returns, equity).  A table is a  *)
(* sequence of rows over the table's index, a row a sequence over the      *)
(* columns in column order.  A date is an integer; dates 2m-1 and 2m are   *)
(* the calendar dates of month m, and 2m is its calendar month-end.        *)
(***************************************************************************)
EXTENDS Integers, Sequences, FiniteSets, TLC

VARIABLES
    pc,               \* position of the caller in the component under study
    index,            \* SectorStrategy.prices.index: the trading calendar
    scores,           \* the table compute_scores() returns, over index
    top_k,            \* SectorStrategy.top_k
    daily_weights,    \* the table get_signal_df() returns
    prev_weights,     \* the table the previous get_signal_df() run returned
    perturbed_day,    \* first row in which this run's scores differ from the previous run's
    row,              \* one row of monthly_scores
    wrow,             \* the row of weights the allocator writes for it
    in_prices,        \* Backtest(prices, ...)
    in_weights,       \* Backtest(..., weights, ...)
    in_bench,         \* Backtest(..., benchmark_prices=...)
    bt_prices,        \* Backtest.prices
    bt_weights,       \* Backtest.weights
    bt_bench,         \* Backtest.benchmark_prices
    portfolio_returns,\* Backtest.portfolio_returns
    equity_curve,     \* Backtest.equity_curve
    report,           \* what generate_report() returns
    err,              \* the exception that ended a call, "none" when none did
    columns,          \* SectorStrategy.prices.columns: the asset identifiers
    macro_data,       \* SectorStrategy.macro_data
    regime,           \* what get_macro_regime() returns
    files,            \* the cache files under DATA_DIR
    prev_files,       \* the cache files before the last fetch_all_data()
    last_call,        \* the last fetch_all_data(): force_refresh and what each fetch returned
    call_no,          \* number of fetch_all_data() calls so far
    last_good,        \* per file, the last non-empty result a fetch for it returned
    acquired,         \* per file, how the latest fetch for it ended
    main_outcome      \* how main() ended

sigVars == <<index, scores, top_k, daily_weights, prev_weights, perturbed_day>>
topVars == <<row, wrow>>
btVars == <<in_prices, in_weights, in_bench, bt_prices, bt_weights, bt_bench,
            portfolio_returns, equity_curve, report, err>>
regVars == <<columns, macro_data, regime>>
ldVars == <<files, prev_files, last_call, call_no, last_good, acquired, main_outcome>>
vars == <<pc, sigVars, topVars, btVars, regVars, ldVars>>

Unused == <<>>

-----------------------------------------------------------------------------
(* Bounds of the model *)

MaxDays == 3          \* trading days in a price panel
NMonths == 3          \* calendar months a price panel may span
MaxK == 3             \* largest top_k of a strategy run
NBtDates == 3         \* dates the inputs of a backtest are drawn from
NRegimeDays == 52     \* trading days of the panel the overlay is computed on
MaxCalls == 2         \* fetch_all_data() calls in a run

-----------------------------------------------------------------------------
(* Cells *)

NaN == <<>>
Zero == <<0, 1>>
One == <<1, 1>>

RECURSIVE Gcd(_, _)
Gcd(a, b) == IF b = 0 THEN a ELSE Gcd(b, a % b)
Abs(a) == IF a < 0 THEN -a ELSE a

\* rationals are kept in lowest terms, the denominator positive
Rat(n, d) == LET g == Gcd(Abs(n), d) IN <<n \div g, d \div g>>
RatAdd(x, y) == Rat(x[1] * y[2] + y[1] * x[2], x[2] * y[2])
RatMul(x, y) == Rat(x[1] * y[1], x[2] * y[2])
RatEq(x, y) == x[1] * y[2] = y[1] * x[2]
RatLeq(x, y) == x[1] * y[2] <= y[1] * x[2]

Max(S) == CHOOSE x \in S : \A y \in S : y <= x

RECURSIVE SeqTo(_)
SeqTo(n) == IF n = 0 THEN <<>> ELSE Append(SeqTo(n - 1), n)

-----------------------------------------------------------------------------
(* strategy.py: get_signal_df *)

Month(d) == (d + 1) \div 2
MonthEnd(m) == 2 * m

\* scores.resample('ME').last(): one row per calendar month from the first
\* date's month to the last date's, each cell the last non-NaN value of the
\* column inside the month (NaN when there is none).
Resample(idx, tbl) ==
    [m \in Month(idx[1]) .. Month(idx[Len(idx)]) |->
        [c \in 1 .. Len(tbl[1]) |->
            LET S == {i \in 1 .. Len(idx) : Month(idx[i]) = m /\ tbl[i][c] # NaN}
            IN  IF S = {} THEN NaN ELSE tbl[Max(S)][c]]]

\* row.dropna(): the columns with a score, in column order.
Dropna(r) == SelectSeq(SeqTo(Len(r)), LAMBDA c : r[c] # NaN)

InsertDescLast(c, s, r) ==
    LET P == {i \in 1 .. Len(s) : r[s[i]][1] > r[c][1]}
        n == IF P = {} THEN 0 ELSE Max(P)
    IN  SubSeq(s, 1, n) \o <<c>> \o SubSeq(s, n + 1, Len(s))

\* One step of the stable descending sort behind nlargest (keep='first'):
\* column c goes after every column whose score is at least its own.
InsertDesc(c, s, r) ==
    LET P == {i \in 1 .. Len(s) : r[s[i]][1] >= r[c][1]}
        n == IF P = {} THEN 0 ELSE Max(P)
    IN  SubSeq(s, 1, n) \o <<c>> \o SubSeq(s, n + 1, Len(s))

RECURSIVE SortDesc(_, _)
SortDesc(cs, r) ==
    IF cs = <<>> THEN <<>>
    ELSE InsertDesc(cs[Len(cs)], SortDesc(SubSeq(cs, 1, Len(cs) - 1), r), r)

\* valid_scores.nlargest(k).index
NLargest(r, cs, k) ==
    LET s == SortDesc(cs, r)
    IN  {s[i] : i \in 1 .. (IF k < Len(s) THEN k ELSE Len(s))}

WeightRowNoSkip(r, k) ==
    LET top == NLargest(r, Dropna(r), k)
    IN  [c \in 1 .. Len(r) |-> IF c \in top THEN <<1, k>> ELSE Zero]

\* The body of the loop over monthly_scores: a row of 0.0, left as it is
\* when fewer than k columns have a score, else 1.0 / k on the k largest.
WeightRow(r, k) ==
    IF Len(Dropna(r)) < k
    THEN [c \in 1 .. Len(r) |-> Zero]
    ELSE LET top == NLargest(r, Dropna(r), k)
         IN  [c \in 1 .. Len(r) |-> IF c \in top THEN <<1, k>> ELSE Zero]

MonthlyWeights(monthly, k) ==
    [m \in DOMAIN monthly |-> WeightRow(monthly[m], k)]

\* weights.reindex(self.prices.index): the row labelled with a trading date
\* when that date is a label of weights (a calendar month-end), else NaN.
Reindex(weights, idx) ==
    [i \in 1 .. Len(idx) |->
        IF \E m \in DOMAIN weights : MonthEnd(m) = idx[i]
        THEN weights[Month(idx[i])]
        ELSE [c \in 1 .. Len(weights[Month(idx[1])]) |-> NaN]]

\* .ffill()
Ffill(tbl) ==
    [i \in 1 .. Len(tbl) |->
        [c \in 1 .. Len(tbl[i]) |->
            LET S == {j \in 1 .. i : tbl[j][c] # NaN}
            IN  IF S = {} THEN NaN ELSE tbl[Max(S)][c]]]

\* .shift(1)
Shift1(tbl) ==
    [i \in 1 .. Len(tbl) |->
        IF i = 1 THEN [c \in 1 .. Len(tbl[1]) |-> NaN] ELSE tbl[i - 1]]

\* .fillna(0)
Fillna0(tbl) ==
    [i \in 1 .. Len(tbl) |->
        [c \in 1 .. Len(tbl[i]) |-> IF tbl[i][c] = NaN THEN Zero ELSE tbl[i][c]]]

GetSignalDfNoShift(idx, tbl, k) ==
    Fillna0(Ffill(Reindex(MonthlyWeights(Resample(idx, tbl), k), idx)))

GetSignalDf(idx, tbl, k) ==
    Fillna0(Shift1(Ffill(Reindex(MonthlyWeights(Resample(idx, tbl), k), idx))))

-----------------------------------------------------------------------------
(* Inputs of the allocator *)

RegUnused == columns = Unused /\ macro_data = Unused /\ regime = Unused
LdUnused ==
    /\ files = Unused /\ prev_files = Unused /\ last_call = Unused /\ call_no = 0
    /\ last_good = Unused /\ acquired = Unused /\ main_outcome = "not_run"

BtUnused ==
    /\ in_prices = Unused /\ in_weights = Unused /\ in_bench = Unused
    /\ bt_prices = Unused /\ bt_weights = Unused /\ bt_bench = Unused
    /\ portfolio_returns = Unused /\ equity_curve = Unused
    /\ report = Unused /\ err = "none"

Dates == 1 .. MonthEnd(NMonths)

\* strictly increasing date sequences: sorted, no duplicate dates
Calendars ==
    {s \in UNION {[1 .. n -> Dates] : n \in 1 .. MaxDays} :
        \A i \in 1 .. Len(s) - 1 : s[i] < s[i + 1]}

\* score rows of a three-column panel
RowChoices ==
    { <<NaN, NaN, NaN>>,
      <<<<1>>, NaN, NaN>>,
      <<NaN, <<1>>, <<2>>>> }

SignalInit ==
    /\ pc = "constructed"
    /\ index \in Calendars
    /\ scores \in [1 .. Len(index) -> RowChoices]
    /\ top_k \in 1 .. MaxK
    /\ daily_weights = Unused
    /\ prev_weights = Unused
    /\ perturbed_day = 0
    /\ row = Unused
    /\ wrow = Unused
    /\ BtUnused /\ RegUnused /\ LdUnused

get_signal_df ==
    /\ pc = "constructed"
    /\ daily_weights' = GetSignalDf(index, scores, top_k)
    /\ pc' = "done"
    /\ UNCHANGED <<index, scores, top_k, prev_weights, perturbed_day, topVars, btVars, regVars, ldVars>>

SignalNext == get_signal_df

SpecSignal == SignalInit /\ [][SignalNext]_vars

\* A second strategy over the same calendar whose score table differs from
\* day t on, and its get_signal_df().
Rerun(t, r) ==
    /\ pc = "done"
    /\ perturbed_day = 0
    /\ r # scores[t]
    /\ scores' = [scores EXCEPT ![t] = r]
    /\ prev_weights' = daily_weights
    /\ perturbed_day' = t
    /\ daily_weights' = GetSignalDf(index, scores', top_k)
    /\ UNCHANGED <<pc, index, top_k, topVars, btVars, regVars, ldVars>>

LookaheadNext ==
    \/ get_signal_df
    \/ \E t \in 1 .. Len(index) : \E r \in RowChoices : Rerun(t, r)

SpecLookahead == SignalInit /\ [][LookaheadNext]_vars

-----------------------------------------------------------------------------
(* The allocator on one monthly row *)

ScoreCells == {NaN, <<-1>>, <<1>>, <<2>>}

TopKInit ==
    /\ pc = "row"
    /\ row \in [1 .. 3 -> ScoreCells] \cup [1 .. 4 -> ScoreCells]
    /\ top_k \in 1 .. MaxK
    /\ wrow = Unused
    /\ index = Unused
    /\ scores = Unused
    /\ daily_weights = Unused
    /\ prev_weights = Unused
    /\ perturbed_day = 0
    /\ BtUnused /\ RegUnused /\ LdUnused

\* One iteration of the loop over monthly_scores.
AllocateRow ==
    /\ pc = "row"
    /\ wrow' = WeightRow(row, top_k)
    /\ pc' = "allocated"
    /\ UNCHANGED <<row, sigVars, btVars, regVars, ldVars>>

TopKNext == AllocateRow

SpecTopK == TopKInit /\ [][TopKNext]_vars

-----------------------------------------------------------------------------
(* Properties of the allocator *)

RECURSIVE RowSum(_)
RowSum(r) == IF Len(r) = 0 THEN Zero ELSE RatAdd(r[1], RowSum(Tail(r)))

NonZero(r) == {c \in 1 .. Len(r) : ~RatEq(r[c], Zero)}
ZeroRow(n) == [c \in 1 .. n |-> Zero]

\* C1: every row of the daily weight table sums to at most 1, every nonzero
\* weight in it is exactly 1/K, and a row that is not all zero has exactly K
\* nonzero weights.
C1_WeightRows ==
    pc = "done" =>
        \A i \in 1 .. Len(index) :
            /\ RatLeq(RowSum(daily_weights[i]), One)
            /\ \A c \in NonZero(daily_weights[i]) : daily_weights[i][c] = <<1, top_k>>
            /\ Cardinality(NonZero(daily_weights[i])) \in {0, top_k}

\* a weight table with an all-zero row and an invested row of more than one asset
C1_Witness ==
    /\ pc = "done"
    /\ top_k > 1
    /\ \E i \in 1 .. Len(index) : NonZero(daily_weights[i]) = {}
    /\ \E i \in 1 .. Len(index) : NonZero(daily_weights[i]) # {}

\* C2: two runs whose score tables agree on every day before day T return
\* the same weight rows for every day up to and including T.  (Tables that
\* differ in several rows from T on are joined by runs that differ in one.)
C2_NoLookahead ==
    perturbed_day # 0 =>
        \A d \in 1 .. perturbed_day : daily_weights[d] = prev_weights[d]

\* the scores of a day changed, and only weights held after it changed
C2_Witness ==
    /\ perturbed_day # 0
    /\ \E d \in perturbed_day + 1 .. Len(index) : daily_weights[d] # prev_weights[d]

Monthly == Resample(index, scores)
Decided(m) == Len(Dropna(Monthly[m])) >= top_k
Selection(m) == WeightRow(Monthly[m], top_k)
Traded(d) == \E i \in 1 .. Len(index) : index[i] = d

\* the selection of the last month before m that had K scores, if any
LastSelection(m) ==
    LET D == {n \in DOMAIN Monthly : n < m /\ Decided(n)}
    IN  IF D = {} THEN ZeroRow(Len(scores[1])) ELSE Selection(Max(D))

\* C3: a month with fewer than K scores is skipped: the weights held after
\* its month-end are the last selection made before it, or zero when there
\* is none.  Stated on calendars that trade on the month-ends up to that
\* month, where every earlier decision has a row in the daily table.
C3_SkippedMonthKeepsWeights ==
    pc = "done" =>
        \A m \in DOMAIN Monthly :
            (/\ ~Decided(m)
             /\ \A n \in DOMAIN Monthly : n <= m => Traded(MonthEnd(n)))
            => \A i \in 1 .. Len(index) :
                   Month(index[i]) = m + 1 => daily_weights[i] = LastSelection(m)

\* the day a month's decision is made: its last trading day
DecisionDay(m) == Max({index[i] : i \in {j \in 1 .. Len(index) : Month(index[j]) = m}})

\* the days on which the decision of month m is in force
HoldingDays(m) ==
    LET later == {n \in DOMAIN Monthly : n > m /\ Decided(n)}
    IN  {i \in 1 .. Len(index) :
            /\ index[i] > MonthEnd(m)
            /\ later # {} =>
                 index[i] <= DecisionDay(CHOOSE n \in later : \A x \in later : n <= x)}

\* C4: the selection of every month with K scores is the weight row from
\* the first trading day after the month's end up to the day of the next
\* decision, and the rows before the first decision takes effect are zero.
\* Stated on panels without a skipped month after a decision (C3's case).
C4_OneDayLagAndHold ==
    (pc = "done" /\ \A m, n \in DOMAIN Monthly : (Decided(m) /\ n > m) => Decided(n)) =>
        /\ \A m \in DOMAIN Monthly :
               Decided(m) => \A i \in HoldingDays(m) : daily_weights[i] = Selection(m)
        /\ \A i \in 1 .. Len(index) :
               (\A m \in DOMAIN Monthly : Decided(m) => index[i] <= MonthEnd(m))
               => daily_weights[i] = ZeroRow(Len(scores[1]))

\* columns that beat column c: a larger score, or the same score further left
Beats(r, c) ==
    {b \in 1 .. Len(r) :
        /\ r[b] # NaN
        /\ b # c
        /\ r[b][1] > r[c][1] \/ (r[b][1] = r[c][1] /\ b < c)}

\* C5: on a row with at least K scores the weight is 1/K on exactly the K
\* columns with the largest scores, ties going to the earlier column, and 0
\* elsewhere; scores [1.0, 0.5, -0.5] with K = 2 give [1/2, 1/2, 0].
C5_TopKByScoreThenColumn ==
    (pc = "allocated" /\ Len(Dropna(row)) >= top_k) =>
        /\ \A c \in 1 .. Len(row) :
               wrow[c] = IF row[c] # NaN /\ Cardinality(Beats(row, c)) < top_k
                         THEN <<1, top_k>> ELSE Zero
        /\ (row = << <<2>>, <<1>>, <<-1>> >> /\ top_k = 2)
               => wrow = << <<1, 2>>, <<1, 2>>, Zero >>

\* a tie at the selection boundary: columns 1 and 3 share the second score
C5_Witness ==
    /\ pc = "allocated"
    /\ row = << <<1>>, <<2>>, <<1>>, NaN >>
    /\ top_k = 2
    /\ wrow = << <<1, 2>>, <<1, 2>>, Zero, Zero >>

-----------------------------------------------------------------------------
(* backtest.py *)

initial_capital == 100000

\* A Series or DataFrame: its index and, row by row, its values.
Frame(idx, val) == [idx |-> idx, val |-> val]
EmptyFrame == Frame(<<>>, <<>>)
Labels(f) == {f.idx[i] : i \in 1 .. Len(f.idx)}
NoBench == [none |-> TRUE]
IsNone(b) == "none" \in DOMAIN b
Raise(e) == [raised |-> e]
Raised(x) == "raised" \in DOMAIN x

\* a.intersection(b)
Intersection(a, b) == SelectSeq(a, LAMBDA d : \E j \in 1 .. Len(b) : b[j] = d)

\* f.loc[labels]: the rows of the labels; a label f does not have is a KeyError
Loc(f, labels) ==
    IF \E j \in 1 .. Len(labels) : labels[j] \notin Labels(f)
    THEN Raise("KeyError")
    ELSE Frame(labels,
               [j \in 1 .. Len(labels) |->
                   f.val[CHOOSE i \in 1 .. Len(f.idx) : f.idx[i] = labels[j]]])

CommonIndexPricesOnly(p, w) == p.idx

\* common_index = self.prices.index.intersection(self.weights.index)
CommonIndex(p, w) == Intersection(p.idx, w.idx)

\* pct_change() of one column: price[t] / price[t-1] - 1, NaN in the first row
PctChange(col) ==
    [i \in 1 .. Len(col) |->
        IF i = 1 THEN NaN
        ELSE RatAdd(Rat(col[i][1] * col[i - 1][2], col[i][2] * col[i - 1][1]), <<-1, 1>>)]

Column(f, a) == [i \in 1 .. Len(f.idx) |-> f.val[i][a]]

\* NaN when either factor is
Times(x, y) == IF x = NaN \/ y = NaN THEN NaN ELSE RatMul(x, y)

\* sum(axis=1): NaN cells are skipped, a row of NaN sums to 0
RECURSIVE SumSkipNa(_)
SumSkipNa(r) ==
    IF Len(r) = 0 THEN Zero
    ELSE IF r[1] = NaN THEN SumSkipNa(Tail(r))
    ELSE RatAdd(r[1], SumSkipNa(Tail(r)))

\* prod(): NaN cells are skipped
RECURSIVE ProdSkipNa(_)
ProdSkipNa(r) ==
    IF Len(r) = 0 THEN One
    ELSE IF r[1] = NaN THEN ProdSkipNa(Tail(r))
    ELSE RatMul(r[1], ProdSkipNa(Tail(r)))

PortfolioReturnsDropFirst(p, w) ==
    LET n == Len(p.idx)
    IN  Frame(SubSeq(p.idx, 2, n),
              [i \in 1 .. (IF n = 0 THEN 0 ELSE n - 1) |->
                  SumSkipNa([a \in 1 .. Len(p.val[i + 1]) |->
                      Times(w.val[i + 1][a], PctChange(Column(p, a))[i + 1])])])

\* (self.weights * asset_returns).sum(axis=1)
PortfolioReturns(p, w) ==
    Frame(p.idx,
          [i \in 1 .. Len(p.idx) |->
              SumSkipNa([a \in 1 .. Len(p.val[i]) |->
                  Times(w.val[i][a], PctChange(Column(p, a))[i])])])

\* (1 + self.portfolio_returns).cumprod() * self.initial_capital
EquityCurve(rets) ==
    Frame(rets.idx,
          [i \in 1 .. Len(rets.idx) |->
              RatMul(ProdSkipNa([j \in 1 .. i |-> RatAdd(One, rets.val[j])]),
                     <<initial_capital, 1>>)])

EmptyMetrics == [empty |-> TRUE]

\* 252 / days
AnnualizationExponent(days) ==
    IF days = 0 THEN Raise("ZeroDivisionError") ELSE [num |-> 252, days |-> days]

\* calculate_metrics: {} on an empty series; else the total return and the
\* exponent of the annualized return.  (Volatility, Sharpe ratio and drawdown
\* are float reductions that return NaN where they are undefined.)
CalculateMetrics(cells) ==
    IF Len(cells) < 1 THEN EmptyMetrics
    ELSE IF Raised(AnnualizationExponent(Len(cells)))
    THEN AnnualizationExponent(Len(cells))
    ELSE [total_return |->
              RatAdd(ProdSkipNa([j \in 1 .. Len(cells) |->
                         IF cells[j] = NaN THEN NaN ELSE RatAdd(cells[j], One)]),
                     <<-1, 1>>),
          exponent |-> AnnualizationExponent(Len(cells))]

\* Backtest.__init__
BacktestInit ==
    /\ pc = "new"
    /\ LET common == CommonIndex(in_prices, in_weights)
           p == Loc(in_prices, common)
           w == Loc(in_weights, common)
           b == IF IsNone(in_bench) THEN in_bench
                ELSE Loc(in_bench, Intersection(in_bench.idx, common))
       IN  IF Raised(p) \/ Raised(w) \/ Raised(b)
           THEN /\ err' = "KeyError"
                /\ pc' = "raised"
                /\ UNCHANGED <<bt_prices, bt_weights, bt_bench>>
           ELSE /\ bt_prices' = p
                /\ bt_weights' = w
                /\ bt_bench' = b
                /\ pc' = "aligned"
                /\ err' = err
    /\ UNCHANGED <<in_prices, in_weights, in_bench, portfolio_returns,
                   equity_curve, report, sigVars, topVars, regVars, ldVars>>

\* Backtest.run
Run ==
    /\ pc = "aligned"
    /\ portfolio_returns' = PortfolioReturns(bt_prices, bt_weights)
    /\ equity_curve' = EquityCurve(portfolio_returns')
    /\ pc' = "ran"
    /\ UNCHANGED <<in_prices, in_weights, in_bench, bt_prices, bt_weights,
                   bt_bench, report, err, sigVars, topVars, regVars, ldVars>>

\* Backtest.generate_report, called after run() as main() does
GenerateReport ==
    /\ pc = "ran"
    /\ LET port_metrics == CalculateMetrics(portfolio_returns.val)
           bench_metrics == IF IsNone(bt_bench) THEN EmptyMetrics
                            ELSE CalculateMetrics(PctChange(bt_bench.val))
       IN  IF Raised(port_metrics) \/ Raised(bench_metrics)
           THEN /\ err' = "ZeroDivisionError"
                /\ pc' = "raised"
                /\ report' = report
           ELSE /\ report' = IF IsNone(bt_bench)
                             THEN [Strategy |-> port_metrics]
                             ELSE [Strategy |-> port_metrics, Benchmark |-> bench_metrics]
                /\ pc' = "reported"
                /\ err' = err
    /\ UNCHANGED <<in_prices, in_weights, in_bench, bt_prices, bt_weights,
                   bt_bench, portfolio_returns, equity_curve, sigVars, topVars,
                   regVars, ldVars>>

BtDates == 1 .. NBtDates
AsIndex(S) == SelectSeq(SeqTo(NBtDates), LAMBDA d : d \in S)

\* two price panels of two assets, positive prices on every date
PricesA(d) == << <<d, 1>>, <<2, 1>> >>
PricesB(d) == << <<NBtDates + 1 - d, 1>>, <<d * d, 1>> >>
\* two weight tables
WeightsA(d) == << <<1, 2>>, <<1, 2>> >>
WeightsB(d) == IF d % 2 = 1 THEN <<Zero, Zero>> ELSE <<One, Zero>>

OnDates(S, F(_)) == Frame(AsIndex(S), [i \in 1 .. Cardinality(S) |-> F(AsIndex(S)[i])])
BenchPrice(d) == <<d + 1, 1>>

BacktestStart ==
    /\ pc = "new"
    /\ in_prices \in {OnDates(S, PricesA) : S \in SUBSET BtDates}
                     \cup {OnDates(S, PricesB) : S \in SUBSET BtDates}
    /\ in_weights \in {OnDates(S, WeightsA) : S \in SUBSET BtDates}
                      \cup {OnDates(S, WeightsB) : S \in SUBSET BtDates}
    /\ in_bench \in {NoBench}
                    \cup {OnDates(lo .. hi, BenchPrice) : lo \in BtDates, hi \in BtDates}
    /\ bt_prices = Unused /\ bt_weights = Unused /\ bt_bench = Unused
    /\ portfolio_returns = Unused /\ equity_curve = Unused
    /\ report = Unused /\ err = "none"
    /\ index = Unused /\ scores = Unused /\ top_k = 0
    /\ daily_weights = Unused /\ prev_weights = Unused /\ perturbed_day = 0
    /\ row = Unused /\ wrow = Unused
    /\ RegUnused /\ LdUnused

BacktestNext == BacktestInit \/ Run \/ GenerateReport

SpecBacktest == BacktestStart /\ [][BacktestNext]_vars

-----------------------------------------------------------------------------
(* Properties of the backtest *)

Aligned == pc \in {"aligned", "ran", "reported"}
HasRun == pc \in {"ran", "reported"}
CommonDates == Labels(in_prices) \cap Labels(in_weights)

\* C6 as claimed: the returns series has one date fewer than the aligned
\* price panel, the first date being dropped.
C6_FirstDateDropped ==
    (HasRun /\ Len(bt_prices.idx) >= 1) =>
        /\ Len(portfolio_returns.idx) = Len(bt_prices.idx) - 1
        /\ bt_prices.idx[1] \notin Labels(portfolio_returns)
        /\ bt_prices.idx[1] \notin Labels(equity_curve)

\* C6 as amended: the returns series and the equity curve have exactly the
\* dates of the aligned price panel; the first date, whose asset returns are
\* NaN and skipped by the sum, has return 0 and equity initial_capital, and
\* the days of the strategy's metrics count it.
C6_FirstDateKeptAsZero ==
    HasRun =>
        /\ portfolio_returns.idx = bt_prices.idx
        /\ equity_curve.idx = bt_prices.idx
        /\ Len(portfolio_returns.val) = Len(bt_prices.idx)
        /\ Len(bt_prices.idx) >= 1 =>
               /\ portfolio_returns.val[1] = Zero
               /\ equity_curve.val[1] = <<initial_capital, 1>>
               /\ pc = "reported" =>
                      report.Strategy.exponent.days = Len(bt_prices.idx)

\* a reported run over three dates whose later returns are not zero
C6_Witness ==
    /\ pc = "reported"
    /\ Len(bt_prices.idx) >= 3
    /\ portfolio_returns.val[1] = Zero
    /\ portfolio_returns.val[2] # Zero
    /\ equity_curve.val[Len(bt_prices.idx)] # <<initial_capital, 1>>

\* C7: no call raises; construction keeps exactly the dates prices and
\* weights share, and of the benchmark the dates inside them; on an empty
\* intersection run() returns empty series and the report is empty.
C7_MisalignedInputsNeverRaise ==
    /\ err = "none"
    /\ pc # "raised"
    /\ Aligned =>
           /\ Labels(bt_prices) = CommonDates
           /\ Labels(bt_weights) = CommonDates
           /\ bt_prices.idx = bt_weights.idx
           /\ IsNone(bt_bench) = IsNone(in_bench)
           /\ ~IsNone(in_bench) => Labels(bt_bench) = Labels(in_bench) \cap CommonDates
    /\ (HasRun /\ CommonDates = {}) =>
           /\ portfolio_returns = EmptyFrame
           /\ equity_curve = EmptyFrame
    /\ (pc = "reported" /\ CommonDates = {}) =>
           \A col \in DOMAIN report : report[col] = EmptyMetrics
    /\ pc = "reported" =>
           report.Strategy = EmptyMetrics <=> Len(portfolio_returns.val) = 0

\* prices, weights and a benchmark that share no date, reported
C7_Witness ==
    /\ pc = "reported"
    /\ Labels(in_prices) # {}
    /\ Labels(in_weights) # {}
    /\ ~IsNone(in_bench) /\ Labels(in_bench) # {}
    /\ CommonDates = {}
    /\ report = [Strategy |-> EmptyMetrics, Benchmark |-> EmptyMetrics]

-----------------------------------------------------------------------------
(* strategy.py: get_macro_regime *)

ma_window == 50
Half == <<1, 2>>
MinusHalf == <<-1, 2>>

\* 'sub' in c, on identifiers spelled as sequences of characters
Contains(sub, c) ==
    \E o \in 0 .. Len(c) - Len(sub) : SubSeq(c, o + 1, o + Len(sub)) = sub

IT == <<"I", "T">>
PHARMA == <<"P", "H", "A", "R", "M", "A">>
AUTO == <<"A", "U", "T", "O">>

\* macro_data.reindex(self.prices.index).ffill(), one column of it, on days
\* 1 .. d: the observation of the day, else the value of the day before
RECURSIVE MacroOn(_, _)
MacroOn(m, d) ==
    IF d = 0 THEN <<>>
    ELSE LET before == MacroOn(m, d - 1)
             S == {i \in 1 .. Len(m.idx) : m.idx[i] = d /\ m.val[i] # NaN}
         IN  Append(before,
                    IF S # {} THEN m.val[CHOOSE i \in S : TRUE]
                    ELSE IF d = 1 THEN NaN ELSE before[d - 1])

RECURSIVE SumCells(_, _, _)
SumCells(col, lo, hi) ==
    IF lo > hi THEN 0 ELSE col[hi][1] + SumCells(col, lo, hi - 1)

\* col > col.rolling(50).mean() on day d: the mean is NaN, and the
\* comparison False, until the window holds 50 observations
AboveMovingAverage(col, d) ==
    /\ d >= ma_window
    /\ \A j \in d - ma_window + 1 .. d : col[j] # NaN
    /\ col[d][1] * ma_window > SumCells(col, d - ma_window + 1, d)

\* the days on which rupee_weak, oil_high hold
RupeeWeak(days) ==
    LET usd == MacroOn(macro_data.usd, days)
    IN  {d \in 1 .. days : AboveMovingAverage(usd, d)}
OilHigh(days) ==
    LET crude == MacroOn(macro_data.crude, days)
    IN  {d \in 1 .. days : AboveMovingAverage(crude, d)}

\* the three in-place updates of the all-zero regime table, in order
Regime(cols, days) ==
    LET weak == RupeeWeak(days)
        high == OilHigh(days)
        r0 == [d \in 1 .. days |-> [c \in 1 .. Len(cols) |-> Zero]]
        r1 == [d \in 1 .. days |-> [c \in 1 .. Len(cols) |->
                  IF d \in weak /\ Contains(IT, cols[c])
                  THEN RatAdd(r0[d][c], Half) ELSE r0[d][c]]]
        r2 == [d \in 1 .. days |-> [c \in 1 .. Len(cols) |->
                  IF d \in weak /\ Contains(PHARMA, cols[c])
                  THEN RatAdd(r1[d][c], Half) ELSE r1[d][c]]]
    IN  [d \in 1 .. days |-> [c \in 1 .. Len(cols) |->
            IF d \in high /\ Contains(AUTO, cols[c])
            THEN RatAdd(r2[d][c], MinusHalf) ELSE r2[d][c]]]

get_macro_regime ==
    /\ pc = "strategy"
    /\ regime' = IF IsNone(macro_data) THEN NoBench
                 ELSE [table |-> Regime(columns, NRegimeDays)]
    /\ pc' = "overlay"
    /\ UNCHANGED <<columns, macro_data, sigVars, topVars, btVars, ldVars>>

\* the sector tickers of data_loader.SECTORS, the identifiers of the spec's
\* scenario, and identifiers that contain more than one of the substrings
Tickers ==
    << <<"^", "N", "S", "E", "B", "A", "N", "K">>,
       <<"^", "C", "N", "X", "I", "T">>,
       <<"^", "C", "N", "X", "F", "M", "C", "G">>,
       <<"^", "C", "N", "X", "A", "U", "T", "O">>,
       <<"^", "C", "N", "X", "P", "H", "A", "R", "M", "A">>,
       <<"^", "C", "N", "X", "M", "E", "T", "A", "L">> >>
Scenario ==
    << <<"S", "e", "c", "t", "o", "r", "I", "T">>,
       <<"S", "e", "c", "t", "o", "r", "A", "u", "t", "o">> >>
Mixed ==
    << <<"I", "T", "_", "P", "H", "A", "R", "M", "A">>,
       <<"A", "U", "T", "O", "_", "I", "T">>,
       <<"B", "A", "N", "K">> >>

\* a macro column observed from day `from` on, except on day `gap`, at level
\* lo before day `step` and hi from it on
MacroColumn(from, gap, step, lo, hi) ==
    LET ds == SelectSeq(SeqTo(NRegimeDays), LAMBDA d : d >= from /\ d # gap)
    IN  Frame(ds, [i \in 1 .. Len(ds) |-> IF ds[i] < step THEN <<lo>> ELSE <<hi>>])

MacroColumns ==
    {MacroColumn(from, gap, step, lv[1], lv[2]) :
        from \in {1, 3}, gap \in {0, ma_window + 1},
        step \in {ma_window, ma_window + 2},
        lv \in {<<1, 1>>, <<1, 2>>, <<2, 1>>}}

RegimeInit ==
    /\ pc = "strategy"
    /\ columns \in {Tickers, Scenario, Mixed}
    /\ macro_data \in {NoBench} \cup [usd : MacroColumns, crude : MacroColumns]
    /\ regime = Unused
    /\ index = Unused /\ scores = Unused /\ top_k = 0
    /\ daily_weights = Unused /\ prev_weights = Unused /\ perturbed_day = 0
    /\ row = Unused /\ wrow = Unused
    /\ BtUnused /\ LdUnused

RegimeNext == get_macro_regime

SpecRegime == RegimeInit /\ [][RegimeNext]_vars

\* C9: on every day and column the overlay is +1/2 if the currency flag
\* holds and the identifier contains "IT" or "PHARMA", plus -1/2 if the
\* commodity flag holds and it contains "AUTO", and 0 otherwise; a flag that
\* is undefined (fewer than 50 observations) contributes 0.
C9_OverlayValues ==
    (pc = "overlay" /\ ~IsNone(macro_data)) =>
        LET currency_weak == RupeeWeak(NRegimeDays)
            commodity_high == OilHigh(NRegimeDays)
        IN  \A d \in 1 .. NRegimeDays : \A c \in 1 .. Len(columns) :
                regime.table[d][c] =
                    RatAdd(IF /\ d \in currency_weak
                              /\ Contains(IT, columns[c]) \/ Contains(PHARMA, columns[c])
                           THEN Half ELSE Zero,
                           IF d \in commodity_high /\ Contains(AUTO, columns[c])
                           THEN MinusHalf ELSE Zero)

-----------------------------------------------------------------------------
(* data_loader.py: fetch_all_data, and main.py: main *)

FileNames == {"benchmark.csv", "sectors.csv", "macro.csv"}

\* what yf.download gives fetch_data: an exception (fetch_data returns None),
\* an empty table, a table with part of the tickers, or all of them
Outcomes == {"None", "empty", "partial", "full"}

Absent == [call |-> 0, data |-> "absent"]
\* the table the n-th fetch_all_data() got from a fetch
Fetched(n, o) == [call |-> n, data |-> o]

ShouldSaveNotNone(o) == o # "None"

\* data is not None and not data.empty
ShouldSave(o) == o # "None" /\ o # "empty"

\* not os.path.exists(...) or force_refresh
ShouldFetch(fs, f, force) == fs[f] = Absent \/ force

\* fetch_all_data: the three cache files in turn
fetch_all_data(force, out) ==
    /\ pc = "loading"
    /\ call_no < MaxCalls
    /\ call_no' = call_no + 1
    /\ prev_files' = files
    /\ files' = [f \in FileNames |->
                    IF ShouldFetch(files, f, force) /\ ShouldSave(out[f])
                    THEN Fetched(call_no + 1, out[f]) ELSE files[f]]
    /\ last_call' = [force |-> force,
                     out |-> [f \in FileNames |->
                                 IF ShouldFetch(files, f, force) THEN out[f] ELSE "skipped"]]
    /\ last_good' = [f \in FileNames |->
                        IF ShouldFetch(files, f, force) /\ out[f] \in {"partial", "full"}
                        THEN Fetched(call_no + 1, out[f]) ELSE last_good[f]]
    /\ acquired' = [f \in FileNames |->
                       IF ShouldFetch(files, f, force) THEN out[f] ELSE acquired[f]]
    /\ UNCHANGED <<pc, main_outcome, sigVars, topVars, btVars, regVars>>

\* load_data: None when the file does not exist
LoadData(f) == files[f]

\* main(): up to the construction of SectorStrategy and Backtest
main ==
    /\ pc = "loading"
    /\ main_outcome' =
           IF LoadData("sectors.csv") = Absent \/ LoadData("benchmark.csv") = Absent
           THEN "load_error"
           ELSE IF LoadData("macro.csv") = Absent
           THEN "AttributeError"
           ELSE "constructed"
    /\ pc' = "exited"
    /\ UNCHANGED <<files, prev_files, last_call, call_no, last_good, acquired,
                   sigVars, topVars, btVars, regVars>>

LoaderInit ==
    /\ pc = "loading"
    /\ files = [f \in FileNames |-> Absent]
    /\ prev_files = [f \in FileNames |-> Absent]
    /\ last_call = [force |-> FALSE, out |-> [f \in FileNames |-> "skipped"]]
    /\ call_no = 0
    /\ last_good = [f \in FileNames |-> Absent]
    /\ acquired = [f \in FileNames |-> "skipped"]
    /\ main_outcome = "not_run"
    /\ index = Unused /\ scores = Unused /\ top_k = 0
    /\ daily_weights = Unused /\ prev_weights = Unused /\ perturbed_day = 0
    /\ row = Unused /\ wrow = Unused
    /\ BtUnused /\ RegUnused

LoaderNext ==
    \/ \E force \in BOOLEAN : \E out \in [FileNames -> Outcomes] :
           fetch_all_data(force, out)
    \/ main

SpecLoader == LoaderInit /\ [][LoaderNext]_vars

\* C8: when the acquisition of an input failed, came back empty or left no
\* file, main() ends with its labelled load error; it never ends in an
\* unlabelled exception, and never constructs the strategy from a table
\* that is missing, partial, or older than a failed refresh.
C8_NoRunOnFailedAcquisition ==
    pc = "exited" =>
        /\ main_outcome # "AttributeError"
        /\ (\E f \in FileNames : files[f] = Absent \/ acquired[f] \in {"None", "empty"})
               => main_outcome = "load_error"
        /\ main_outcome = "constructed" =>
               \A f \in FileNames : files[f].data = "full"

\* C10: a fetch happens, and a file is written, only for a file that is
\* absent or under force_refresh; an existing file is unchanged without
\* force_refresh; a failed or empty fetch writes nothing; so every file is
\* absent or holds the latest non-empty fetch made for it.
C10_CacheDiscipline ==
    /\ \A f \in FileNames :
           /\ call_no > 0 =>
                  (last_call.out[f] # "skipped" <=> (prev_files[f] = Absent \/ last_call.force))
           /\ last_call.out[f] \in {"skipped", "None", "empty"} => files[f] = prev_files[f]
           /\ last_call.out[f] \in {"partial", "full"} =>
                  files[f] = Fetched(call_no, last_call.out[f])
           /\ (prev_files[f] # Absent /\ ~last_call.force) => files[f] = prev_files[f]
    /\ \A f \in FileNames : files[f] = last_good[f]
    /\ \A f \in FileNames : files[f].data \in {"absent", "partial", "full"}

\* a forced refresh that failed for a cached file and replaced another
C10_Witness ==
    /\ call_no = 2
    /\ last_call.force
    /\ \E f \in FileNames :
           /\ last_call.out[f] \in {"None", "empty"}
           /\ files[f] # Absent /\ files[f].call = 1
    /\ \E f \in FileNames : files[f].call = 2

====
